---- MODULE Spec2Model ----
(***************************************************************************)
(* Project Guardian 2.0: PII detection and redaction of JSON payloads      *)
(* carried in CSV rows.  The repository holds two detectors:               *)
(*   src/ctf/detector_full_harinichitra.py   process_csv (module level)    *)
(*   src/detector_full_harinichitra.py       class PIIDetector + main      *)
(* Both are modelled.  Strings are sequences of one-character strings, so  *)
(* that the regular expressions and the masking functions are computed on  *)
(* the characters, as the code computes them.                              *)
(***************************************************************************)
EXTENDS Integers, Sequences, FiniteSets, TLC

VARIABLES
    data,       \* the parsed record handed to both detectors
    pc,         \* "ready" before the record is processed, "done" after
    ctf,        \* outcome of process_csv's per-row body on data
    root,       \* outcome of PIIDetector.process_record on data
    rows,       \* the input CSV: sequence of [record_id, data_json]
    ctf_pos,    \* process_csv: number of rows consumed by the for loop
    ctf_status, \* process_csv: "running", "done", "aborted"
    ctf_out,    \* process_csv: rows written to the output file (after the header)
    root_pos,   \* main: number of rows consumed by the for loop
    root_status,\* main: "running", "writing", "done", "aborted"
    output_rows,\* main: the buffered output_rows list
    root_out    \* main: rows written to the output file (after the header)

vars == <<data, pc, ctf, root, rows, ctf_pos, ctf_status, ctf_out,
          root_pos, root_status, output_rows, root_out>>

recVars == <<data, pc, ctf, root>>
csvVars == <<rows, ctf_pos, ctf_status, ctf_out, root_pos, root_status,
             output_rows, root_out>>

----------------------------------------------------------------------------
(* Characters and Python string primitives *)

Digit  == {"0","1","2","3","4","5","6","7","8","9"}
UpperC == {"A","B","C","D","E","F","G","H","I","J","K","L","M",
           "N","O","P","Q","R","S","T","U","V","W","X","Y","Z"}
LowerC == {"a","b","c","d","e","f","g","h","i","j","k","l","m",
           "n","o","p","q","r","s","t","u","v","w","x","y","z"}
Alnum  == Digit \cup UpperC \cup LowerC
WordC  == Alnum \cup {"_"}                  \* regex \w
WS     == {" ", "\t"}                        \* regex \s (the part used here)

Min(a, b) == IF a < b THEN a ELSE b
Max(a, b) == IF a > b THEN a ELSE b

\* s[:n]
Take(s, n) == SubSeq(s, 1, Min(n, Len(s)))
\* s[-n:]
LastN(s, n) == SubSeq(s, Max(1, Len(s) - n + 1), Len(s))
\* s[n:] with n counted from 0
Drop(s, n) == SubSeq(s, n + 1, Len(s))

AllIn(s, a, b, C) == \A i \in a..b : s[i] \in C

\* regex \b at the position between s[p] and s[p+1], p in 0..Len(s)
IsWordAt(s, i) == i >= 1 /\ i <= Len(s) /\ s[i] \in WordC
Boundary(s, p) == IsWordAt(s, p) # IsWordAt(s, p + 1)

\* str.replace(c, '')
RECURSIVE Remove(_, _)
Remove(s, C) ==
    IF s = <<>> THEN <<>>
    ELSE IF Head(s) \in C THEN Remove(Tail(s), C)
    ELSE <<Head(s)>> \o Remove(Tail(s), C)

\* index of the first '@' (0 when there is none); s.split('@', 1)
RECURSIVE FindFrom(_, _, _)
FindFrom(s, c, i) ==
    IF i > Len(s) THEN 0
    ELSE IF s[i] = c THEN i
    ELSE FindFrom(s, c, i + 1)
Find(s, c) == FindFrom(s, c, 1)
HasAt(s) == Find(s, "@") # 0
LocalPart(s) == SubSeq(s, 1, Find(s, "@") - 1)
DomainPart(s) == SubSeq(s, Find(s, "@") + 1, Len(s))

\* str.strip()
RECURSIVE LStrip(_)
LStrip(s) == IF s # <<>> /\ Head(s) \in WS THEN LStrip(Tail(s)) ELSE s
RECURSIVE RStrip(_)
RStrip(s) ==
    IF s # <<>> /\ s[Len(s)] \in WS THEN RStrip(SubSeq(s, 1, Len(s) - 1)) ELSE s
Strip(s) == RStrip(LStrip(s))

UpperOf == [c \in LowerC |->
    CASE c = "a" -> "A" [] c = "b" -> "B" [] c = "c" -> "C" [] c = "d" -> "D"
      [] c = "e" -> "E" [] c = "f" -> "F" [] c = "g" -> "G" [] c = "h" -> "H"
      [] c = "i" -> "I" [] c = "j" -> "J" [] c = "k" -> "K" [] c = "l" -> "L"
      [] c = "m" -> "M" [] c = "n" -> "N" [] c = "o" -> "O" [] c = "p" -> "P"
      [] c = "q" -> "Q" [] c = "r" -> "R" [] c = "s" -> "S" [] c = "t" -> "T"
      [] c = "u" -> "U" [] c = "v" -> "V" [] c = "w" -> "W" [] c = "x" -> "X"
      [] c = "y" -> "Y" [] c = "z" -> "Z"]
LowerOf == [c \in UpperC |-> CHOOSE l \in LowerC : UpperOf[l] = c]
\* str.upper(), str.lower()
ToUpper(s) == [i \in 1..Len(s) |-> IF s[i] \in LowerC THEN UpperOf[s[i]] ELSE s[i]]
ToLower(s) == [i \in 1..Len(s) |-> IF s[i] \in UpperC THEN LowerOf[s[i]] ELSE s[i]]

\* needle in s
Contains(s, needle) ==
    \E i \in 1..(Len(s) - Len(needle) + 1) :
        SubSeq(s, i, i + Len(needle) - 1) = needle

----------------------------------------------------------------------------
(* JSON scalar values of a record *)

Str(s)  == [t |-> "str",  s |-> s,    n |-> 0]
Num(n)  == [t |-> "num",  s |-> <<>>, n |-> n]
Bool(b) == [t |-> "bool", s |-> <<>>, n |-> IF b THEN 1 ELSE 0]
Null    == [t |-> "null", s |-> <<>>, n |-> 0]

\* isinstance(value, str)
IsStr(v) == v.t = "str"

\* Python truth value: '' , 0, False and None are falsy
Truthy(v) ==
    CASE v.t = "str"  -> v.s # <<>>
      [] v.t = "num"  -> v.n # 0
      [] v.t = "bool" -> v.n = 1
      [] v.t = "null" -> FALSE

DigitChar(d) == <<"0","1","2","3","4","5","6","7","8","9">>[d + 1]
RECURSIVE NatStr(_)
NatStr(n) == IF n < 10 THEN <<DigitChar(n)>>
             ELSE NatStr(n \div 10) \o <<DigitChar(n % 10)>>
\* str(value)
PyStr(v) ==
    CASE v.t = "str"  -> v.s
      [] v.t = "num"  -> IF v.n < 0 THEN <<"-">> \o NatStr(-v.n) ELSE NatStr(v.n)
      [] v.t = "bool" -> IF v.n = 1 THEN <<"T","r","u","e">> ELSE <<"F","a","l","s","e">>
      [] v.t = "null" -> <<"N","o","n","e">>

REDACTED_PII == <<"[","R","E","D","A","C","T","E","D","_","P","I","I","]">>
REDACTED_ADDRESS ==
    <<"[","R","E","D","A","C","T","E","D","_","A","D","D","R","E","S","S","]">>
X2 == <<"X","X">>
X3 == <<"X","X","X">>
X4 == <<"X","X","X","X">>
X6 == <<"X","X","X","X","X","X">>

----------------------------------------------------------------------------
(* src/ctf/detector_full_harinichitra.py *)

\* PHONE_REGEX.fullmatch: \b\d{10}\b
PHONE_REGEX(s) ==
    /\ Len(s) = 10
    /\ AllIn(s, 1, 10, Digit)
    /\ Boundary(s, 0) /\ Boundary(s, 10)

\* AADHAAR_REGEX.fullmatch: \b\d{4}\s?\d{4}\s?\d{4}\b
AADHAAR_REGEX(s) ==
    \E a \in 0..1, b \in 0..1 :
        /\ Len(s) = 12 + a + b
        /\ AllIn(s, 1, 4, Digit)
        /\ (a = 1 => s[5] \in WS)
        /\ AllIn(s, 5 + a, 8 + a, Digit)
        /\ (b = 1 => s[9 + a] \in WS)
        /\ AllIn(s, 9 + a + b, 12 + a + b, Digit)
        /\ Boundary(s, 0) /\ Boundary(s, Len(s))

\* PASSPORT_REGEX.fullmatch: \b[A-Z]{1}\d{7}\b
PASSPORT_REGEX(s) ==
    /\ Len(s) = 8
    /\ s[1] \in UpperC
    /\ AllIn(s, 2, 8, Digit)
    /\ Boundary(s, 0) /\ Boundary(s, 8)

\* UPI_REGEX.fullmatch: \b[\w.-]+@[\w.-]+\b
UpiC == WordC \cup {".", "-"}
UPI_REGEX(s) ==
    \E j \in 2..(Len(s) - 1) :
        /\ s[j] = "@"
        /\ AllIn(s, 1, j - 1, UpiC)
        /\ AllIn(s, j + 1, Len(s), UpiC)
        /\ Boundary(s, 0) /\ Boundary(s, Len(s))

COMBINATORIAL_KEYS == {"email", "address", "device_id", "ip_address"}

mask_phone(s) == Take(s, 2) \o X6 \o LastN(s, 2)

mask_aadhaar(s) ==
    LET digits == Remove(s, {" "})
    IN  Take(digits, 4) \o <<" ">> \o X4 \o <<" ">> \o X2 \o LastN(digits, 2)

mask_passport(s) == Take(s, 4) \o X4

\* str.isdigit() on a non-empty string
IsDigitStr(s) == s # <<>> /\ AllIn(s, 1, Len(s), Digit)

mask_upi(s) ==
    IF ~HasAt(s) THEN REDACTED_PII
    ELSE LET local_part == LocalPart(s)
             masked_local == IF IsDigitStr(local_part) /\ Len(local_part) = 10
                             THEN mask_phone(local_part)
                             ELSE Take(local_part, 2) \o X2
         IN  masked_local \o <<"@">> \o DomainPart(s)

mask_email(s) ==
    IF ~HasAt(s) THEN REDACTED_PII
    ELSE Take(LocalPart(s), 2) \o X3 \o <<"@">> \o DomainPart(s)

\* mask_name is called with whatever data.get returns; a truthy value that is
\* not a string cannot be subscripted (TypeError)
MaskNameRaises(first, last) ==
    \/ (Truthy(first) /\ ~IsStr(first))
    \/ (Truthy(last) /\ ~IsStr(last))
mask_name(first, last) ==
    LET masked_first == IF Truthy(first) THEN <<first.s[1]>> \o X3 ELSE <<>>
        masked_last  == IF Truthy(last) THEN <<last.s[1]>> \o X3 ELSE <<>>
    IN  Strip(masked_first \o <<" ">> \o masked_last)
\* mask_email evaluates '@' not in email_str: TypeError unless a string
MaskEmailRaises(v) == ~IsStr(v)

\* Step 1 (lines 104-119): the keys whose branch fires
CtfStandaloneHit(key, v) ==
    /\ IsStr(v)
    /\ \/ key = "phone" /\ PHONE_REGEX(v.s)
       \/ key = "aadhar" /\ AADHAAR_REGEX(v.s)
       \/ key = "passport" /\ PASSPORT_REGEX(v.s)
       \/ key = "upi_id" /\ UPI_REGEX(v.s)
CtfStandaloneMask(key, s) ==
    CASE key = "phone"    -> mask_phone(s)
      [] key = "aadhar"   -> mask_aadhaar(s)
      [] key = "passport" -> mask_passport(s)
      [] key = "upi_id"   -> mask_upi(s)
\* faulty variant: the key test is dropped, every field is scanned by pattern
CtfStandalone_AnyKey(d) ==
    {k \in DOMAIN d :
        /\ IsStr(d[k])
        /\ \/ PHONE_REGEX(d[k].s) \/ AADHAAR_REGEX(d[k].s)
           \/ PASSPORT_REGEX(d[k].s) \/ UPI_REGEX(d[k].s)}

CtfStandalone(d) == {k \in DOMAIN d : CtfStandaloneHit(k, d[k])}

\* Step 2 (lines 125-132)
combinatorial_hits(d) ==
    (IF "first_name" \in DOMAIN d /\ "last_name" \in DOMAIN d THEN {"name"} ELSE {})
    \cup {k \in COMBINATORIAL_KEYS : k \in DOMAIN d}

CtfHasCombination(d) == Cardinality(combinatorial_hits(d)) >= 2

\* lines 136-155: an exception inside the row's try block that is not a
\* JSONDecodeError
CtfRaises(d) ==
    /\ CtfHasCombination(d)
    /\ \/ "name" \in combinatorial_hits(d)
          /\ MaskNameRaises(d["first_name"], d["last_name"])
       \/ "email" \in combinatorial_hits(d) /\ MaskEmailRaises(d["email"])

\* redacted_data when the row's body completes
CtfRedacted(d) ==
    LET hits == combinatorial_hits(d)
        comb == CtfHasCombination(d)
        keys == IF comb /\ "name" \in hits
                THEN (DOMAIN d \ {"first_name", "last_name"}) \cup {"name"}
                ELSE DOMAIN d
    IN  [k \in keys |->
            IF comb /\ k = "name" /\ "name" \in hits
                THEN Str(mask_name(d["first_name"], d["last_name"]))
            ELSE IF comb /\ k = "email" THEN Str(mask_email(d[k].s))
            ELSE IF comb /\ k = "address" THEN Str(REDACTED_ADDRESS)
            ELSE IF comb /\ k \in {"device_id", "ip_address"} THEN Str(REDACTED_PII)
            ELSE IF CtfStandaloneHit(k, d[k]) THEN Str(CtfStandaloneMask(k, d[k].s))
            ELSE d[k]]

NoRecord == [k \in {} |-> Null]

\* faulty variant: the combination no longer sets the flag
CtfIsPii_StandaloneOnly(d) == CtfStandalone(d) # {}

\* the body of the row's try block for a parsed object (lines 100-161)
CtfIsPii(d) == CtfStandalone(d) # {} \/ CtfHasCombination(d)
CtfProcess(d) ==
    IF CtfRaises(d)
    THEN [raised |-> TRUE, redacted |-> NoRecord, is_pii |-> FALSE,
          standalone |-> {}, hits |-> {}, has_combination |-> FALSE]
    ELSE [raised |-> FALSE, redacted |-> CtfRedacted(d), is_pii |-> CtfIsPii(d),
          standalone |-> CtfStandalone(d), hits |-> combinatorial_hits(d),
          has_combination |-> CtfHasCombination(d)]

----------------------------------------------------------------------------
(* src/detector_full_harinichitra.py: class PIIDetector *)

\* phone_pattern.search: \b\d{10}\b anywhere in s
phone_pattern(s) ==
    \E i \in 1..(Len(s) - 9) :
        AllIn(s, i, i + 9, Digit) /\ Boundary(s, i - 1) /\ Boundary(s, i + 9)

\* aadhar_pattern.search: \b\d{4}\s*\d{4}\s*\d{4}\b|\b\d{12}\b anywhere in s
aadhar_pattern(s) ==
    \/ \E i \in 1..(Len(s) - 11) :
         /\ Boundary(s, i - 1)
         /\ AllIn(s, i, i + 3, Digit)
         /\ \E a \in 0..(Len(s) - 11 - i) :
              /\ AllIn(s, i + 4, i + 3 + a, WS)
              /\ AllIn(s, i + 4 + a, i + 7 + a, Digit)
              /\ \E b \in 0..(Len(s) - 11 - i - a) :
                   /\ AllIn(s, i + 8 + a, i + 7 + a + b, WS)
                   /\ AllIn(s, i + 8 + a + b, i + 11 + a + b, Digit)
                   /\ Boundary(s, i + 11 + a + b)
    \/ \E i \in 1..(Len(s) - 11) :
         AllIn(s, i, i + 11, Digit) /\ Boundary(s, i - 1) /\ Boundary(s, i + 11)

\* passport_pattern.search: \b[A-Z]\d{7}\b anywhere in s
passport_pattern(s) ==
    \E i \in 1..(Len(s) - 7) :
        /\ s[i] \in UpperC
        /\ AllIn(s, i + 1, i + 7, Digit)
        /\ Boundary(s, i - 1) /\ Boundary(s, i + 7)

\* upi_pattern.search: \b\w+@[a-zA-Z0-9]+\b|\b\d{10}@[a-zA-Z0-9]+\b
upi_pattern(s) ==
    \E j \in 2..(Len(s) - 1) :
        /\ s[j] = "@"
        /\ \/ \E i \in 1..(j - 1) : AllIn(s, i, j - 1, WordC) /\ Boundary(s, i - 1)
           \/ j >= 11 /\ AllIn(s, j - 10, j - 1, Digit) /\ Boundary(s, j - 11)
        /\ \E e \in (j + 1)..Len(s) : AllIn(s, j + 1, e, Alnum) /\ Boundary(s, e)

\* email_pattern.search: \b[A-Za-z0-9._%+-]+@[A-Za-z0-9.-]+\.[A-Z|a-z]{2,}\b
EmailLocalC == Alnum \cup {".", "_", "%", "+", "-"}
EmailDomainC == Alnum \cup {".", "-"}
EmailTldC == UpperC \cup LowerC \cup {"|"}
email_pattern(s) ==
    \E j \in 2..(Len(s) - 4) :
        /\ s[j] = "@"
        /\ \E i \in 1..(j - 1) : AllIn(s, i, j - 1, EmailLocalC) /\ Boundary(s, i - 1)
        /\ \E k \in (j + 2)..(Len(s) - 2) :
             /\ s[k] = "."
             /\ AllIn(s, j + 1, k - 1, EmailDomainC)
             /\ \E e \in (k + 2)..Len(s) :
                  AllIn(s, k + 1, e, EmailTldC) /\ Boundary(s, e)

\* full_name_pattern.search: \b[A-Z][a-z]+\s+[A-Z][a-z]+\b
full_name_pattern(s) ==
    \E i \in 1..(Len(s) - 4) :
        /\ Boundary(s, i - 1)
        /\ s[i] \in UpperC
        /\ \E a \in (i + 1)..(Len(s) - 3) :
             /\ AllIn(s, i + 1, a, LowerC)
             /\ \E b \in (a + 1)..(Len(s) - 2) :
                  /\ AllIn(s, a + 1, b, WS)
                  /\ s[b + 1] \in UpperC
                  /\ \E e \in (b + 2)..Len(s) :
                       AllIn(s, b + 2, e, LowerC) /\ Boundary(s, e)

address_keywords ==
    { <<"s","t","r","e","e","t">>, <<"r","o","a","d">>, <<"a","v","e","n","u","e">>,
      <<"l","a","n","e">>, <<"b","l","o","c","k">>, <<"s","e","c","t","o","r">>,
      <<"n","a","g","a","r">>, <<"c","o","l","o","n","y">> }

standalone_fields == {"phone", "aadhar", "passport", "upi_id"}

SpaceDash == {" ", "-"}

is_phone_number(s) == phone_pattern(Remove(s, SpaceDash))

is_aadhar_number(s) ==
    LET normalized == Remove(s, SpaceDash)
    IN  aadhar_pattern(normalized) /\ Len(normalized) = 12

is_passport_number(s) == passport_pattern(ToUpper(s))

is_upi_id(s) == upi_pattern(s)

is_email(s) == email_pattern(s)

is_full_name(s) == full_name_pattern(s)

is_physical_address(s) ==
    LET value_lower == ToLower(s)
        has_keyword == \E kw \in address_keywords : Contains(value_lower, kw)
        has_numbers == \E i \in 1..Len(s) : s[i] \in Digit
    IN  has_keyword /\ has_numbers /\ Len(s) > 10

\* re.sub(r'[^\d]', '', value)
IsDigitChar(c) == c \in Digit
OnlyDigits(s) == SelectSeq(s, IsDigitChar)

\* str.split(): the whitespace-separated tokens
RECURSIVE SplitWs(_, _)
SplitWs(s, cur) ==
    IF s = <<>> THEN (IF cur = <<>> THEN <<>> ELSE <<cur>>)
    ELSE IF Head(s) \in WS
         THEN (IF cur = <<>> THEN <<>> ELSE <<cur>>) \o SplitWs(Tail(s), <<>>)
         ELSE SplitWs(Tail(s), cur \o <<Head(s)>>)
\* " ".join(parts)
RECURSIVE JoinSp(_)
JoinSp(parts) ==
    IF parts = <<>> THEN <<>>
    ELSE IF Len(parts) = 1 THEN parts[1]
    ELSE parts[1] \o <<" ">> \o JoinSp(Tail(parts))

\* detect_standalone_pii: does the loop body append key?
RootStandaloneHit(key, v) ==
    /\ Truthy(v)
    /\ LET value_str == PyStr(v)
       IN  IF key \in standalone_fields
           THEN \/ key = "phone" /\ is_phone_number(value_str)
                \/ key = "aadhar" /\ is_aadhar_number(value_str)
                \/ key = "passport" /\ is_passport_number(value_str)
                \/ key = "upi_id" /\ is_upi_id(value_str)
           ELSE \/ is_phone_number(value_str)
                \/ is_aadhar_number(value_str)
                \/ is_passport_number(value_str)
                \/ is_upi_id(value_str)
detect_standalone_pii(d) == {k \in DOMAIN d : RootStandaloneHit(k, d[k])}

\* detect_combinatorial_pii: does the loop body append key?
RootCombinatorialHit(key, v) ==
    /\ Truthy(v)
    /\ LET value_str == PyStr(v)
       IN  \/ key \in {"name", "first_name", "last_name"} /\ is_full_name(value_str)
           \/ key = "name"
           \/ key = "email" /\ is_email(value_str)
           \/ key = "address" /\ is_physical_address(value_str)
           \/ key \in {"device_id", "ip_address"} /\ Len(value_str) > 5
potential_pii(d) == {k \in DOMAIN d : RootCombinatorialHit(k, d[k])}
RootHasCombination(d) == Cardinality(potential_pii(d)) >= 2

redact_value(v, field_name) ==
    LET value == PyStr(v)
    IN  IF is_phone_number(value)
        THEN LET clean_phone == OnlyDigits(value)
             IN  IF Len(clean_phone) = 10
                 THEN Take(clean_phone, 2) \o X6 \o LastN(clean_phone, 2)
                 ELSE REDACTED_PII
        ELSE IF is_aadhar_number(value)
        THEN LET clean_aadhar == OnlyDigits(value)
             IN  IF Len(clean_aadhar) = 12
                 THEN Take(clean_aadhar, 4) \o <<" ">> \o X4 \o <<" ">> \o X2
                      \o LastN(clean_aadhar, 2)
                 ELSE REDACTED_PII
        ELSE IF is_passport_number(value)
        THEN IF Len(value) >= 4 THEN Take(value, 4) \o X4 ELSE REDACTED_PII
        ELSE IF is_upi_id(value)
        THEN IF HasAt(value)
             THEN LET username == LocalPart(value)
                      masked_username ==
                          IF is_phone_number(username)
                          THEN Take(username, 2) \o X6 \o LastN(username, 2)
                          ELSE Take(username, 2) \o X2
                  IN  masked_username \o <<"@">> \o DomainPart(value)
             ELSE REDACTED_PII
        ELSE IF is_email(value)
        THEN IF HasAt(value)
             THEN LET username == LocalPart(value)
                      masked_username ==
                          IF Len(username) > 2 THEN Take(username, 2) \o X3 ELSE X3
                  IN  masked_username \o <<"@">> \o DomainPart(value)
             ELSE REDACTED_PII
        ELSE IF is_full_name(value)
        THEN LET parts == SplitWs(value, <<>>)
                 masked_parts == [i \in 1..Len(parts) |->
                     IF Len(parts[i]) > 1 THEN <<parts[i][1]>> \o X3 ELSE X3]
             IN  JoinSp(masked_parts)
        ELSE IF field_name = "address" \/ is_physical_address(value)
        THEN REDACTED_ADDRESS
        ELSE REDACTED_PII

RootIsPii(d) == detect_standalone_pii(d) # {} \/ RootHasCombination(d)

RootRedacted(d) ==
    LET standalone_pii == detect_standalone_pii(d)
        combinatorial_fields == potential_pii(d)
        has_combination == RootHasCombination(d)
    IN  [k \in DOMAIN d |->
            IF k \in standalone_pii \/ (has_combination /\ k \in combinatorial_fields)
            THEN Str(redact_value(d[k], k))
            ELSE d[k]]

\* process_record on a parsed object
process_record(d) ==
    [raised |-> FALSE, redacted |-> RootRedacted(d), is_pii |-> RootIsPii(d),
     standalone |-> detect_standalone_pii(d), hits |-> potential_pii(d),
     has_combination |-> RootHasCombination(d)]

----------------------------------------------------------------------------
(* The records the detectors are run on: every mapping of at most MaxFields
   of the keys below to one of that key's sample values *)

PhoneOk == Str(<<"9","8","7","6","5","4","3","2","1","0">>)
PhoneShort == Str(<<"1","2","3","4","5">>)
PhoneSpaced == Str(<<"9","8","7","6","5"," ","4","3","2","1","0">>)
PhoneNum == Num(1234567890)
AadharOk == Str(<<"1","2","3","4","5","6","7","8","9","0","1","2">>)
AadharGrouped == Str(<<"1","2","3","4"," ","5","6","7","8"," ","9","0","1","2">>)
AadharShort == Str(<<"1","2","3","4","5">>)
PassportOk == Str(<<"P","1","2","3","4","5","6","7">>)
PassportLower == Str(<<"p","1","2","3","4","5","6","7">>)
PassportShort == Str(<<"P","1","2">>)
UpiOk == Str(<<"u","s","e","r","@","u","p","i">>)
UpiPhone == Str(<<"9","8","7","6","5","4","3","2","1","0","@","y","b","l">>)
UpiNoAt == Str(<<"n","o","h","a","n","d","l","e">>)
FirstOk == Str(<<"J","o","h","n">>)
EmptyStr == Str(<<>>)
FirstNum == Num(5)
FirstFull == Str(<<"J","o","h","n"," ","S","m","i","t","h">>)
LastOk == Str(<<"S","m","i","t","h">>)
LastFull == Str(<<"J","a","n","e"," ","D","o","e">>)
NullValue == Null
NameOk == Str(<<"Z","e","d">>)
EmailOk == Str(<<"j","o","h","n","@","g","m","a","i","l",".","c","o","m">>)
EmailShort == Str(<<"a","@","b",".","c","o","m">>)
EmailNoAt == Str(<<"n","o","t","a","n","e","m","a","i","l">>)
AddressOk == Str(<<"1","2"," ","P","a","r","k"," ","S","t","r","e","e","t"," ","D","e","l","h","i">>)
AddressPlain == Str(<<"h","o","m","e">>)
DeviceOk == Str(<<"D","E","V","1","2","3","4","5","6">>)
DeviceShort == Str(<<"a","b","c">>)
IpOk == Str(<<"1","9","2",".","1","6","8",".","1",".","1">>)
OrderPhone == Str(<<"9","8","7","6","5","4","3","2","1","0">>)
OrderPlain == Str(<<"O","R","D","1">>)
OrderPassport == Str(<<"A","1","2","3","4","5","6","7">>)
OrderUpi == Str(<<"m","e","@","u","p","i">>)
OrderAadhar == Str(<<"1","2","3","4","5","6","7","8","9","0","1","2">>)

Keys == {"phone", "aadhar", "passport", "upi_id", "first_name", "last_name", "name", "email", "address", "device_id", "ip_address", "order_id"}

ValuesOf(k) ==
    CASE k = "phone" -> {PhoneOk, PhoneShort, PhoneSpaced, PhoneNum}
      [] k = "aadhar" -> {AadharOk, AadharGrouped, AadharShort}
      [] k = "passport" -> {PassportOk, PassportLower, PassportShort}
      [] k = "upi_id" -> {UpiOk, UpiPhone, UpiNoAt}
      [] k = "first_name" -> {FirstOk, EmptyStr, FirstNum, FirstFull}
      [] k = "last_name" -> {LastOk, LastFull, NullValue}
      [] k = "name" -> {NameOk}
      [] k = "email" -> {EmailOk, EmailShort, EmptyStr, NullValue, EmailNoAt}
      [] k = "address" -> {AddressOk, AddressPlain, EmptyStr}
      [] k = "device_id" -> {DeviceOk, DeviceShort, EmptyStr}
      [] k = "ip_address" -> {IpOk, EmptyStr}
      [] k = "order_id" -> {OrderPhone, OrderPlain, OrderPassport, OrderUpi, OrderAadhar}

MaxFields == 4

KeySets == {K \in SUBSET Keys : Cardinality(K) <= MaxFields}

RECURSIVE RecordsOver(_)
RecordsOver(K) ==
    IF K = {} THEN {NoRecord}
    ELSE LET k == CHOOSE x \in K : TRUE
         IN  {[x \in K |-> IF x = k THEN v ELSE d[x]] :
                 d \in RecordsOver(K \ {k}), v \in ValuesOf(k)}

----------------------------------------------------------------------------
(* Running one detector on one parsed record *)

NotRun == [raised |-> FALSE, redacted |-> NoRecord, is_pii |-> FALSE,
           standalone |-> {}, hits |-> {}, has_combination |-> FALSE]

InitRec ==
    /\ \E K \in KeySets : data \in RecordsOver(K)
    /\ pc = "ready"
    /\ ctf = NotRun
    /\ root = NotRun
    /\ rows = <<>>
    /\ ctf_pos = 0 /\ ctf_status = "idle" /\ ctf_out = <<>>
    /\ root_pos = 0 /\ root_status = "idle" /\ output_rows = <<>> /\ root_out = <<>>

\* process_csv, lines 100-161, on the record
CtfRun ==
    /\ pc = "ready"
    /\ pc' = "ctf"
    /\ ctf' = CtfProcess(data)
    /\ UNCHANGED <<data, root>>
    /\ UNCHANGED csvVars

\* PIIDetector.process_record on the record
RootRun ==
    /\ pc = "ready"
    /\ pc' = "root"
    /\ root' = process_record(data)
    /\ UNCHANGED <<data, ctf>>
    /\ UNCHANGED csvVars

NextRec == CtfRun \/ RootRun

SpecRec == InitRec /\ [][NextRec]_vars

----------------------------------------------------------------------------
(* The CSV drivers: process_csv (ctf) and main (PIIDetector) *)

\* sample data_json cells
RawPhone     == "{\"phone\": \"9876543210\"}"
RawPlain     == "{\"order_id\": \"ORD1\"}"
RawCombo     == "{\"first_name\": \"John\", \"last_name\": \"Smith\", \"email\": \"john@gmail.com\"}"
RawMalformed == "{\"phone\": \"9876543210\""
RawArray     == "[1, 2]"
RawNumName   == "{\"first_name\": 5, \"last_name\": \"Smith\", \"email\": \"a@b.com\"}"

Payloads == {RawPhone, RawPlain, RawCombo, RawMalformed, RawArray, RawNumName}
RecordIds == {"r1", "r2"}

\* json.loads on the sample cells: ok = FALSE is JSONDecodeError; kind tells a
\* JSON object (a dict) from any other JSON value
JsonLoads(raw) ==
    CASE raw = RawPhone     -> [ok |-> TRUE, kind |-> "object", value |-> [phone |-> PhoneOk]]
      [] raw = RawPlain     -> [ok |-> TRUE, kind |-> "object", value |-> [order_id |-> OrderPlain]]
      [] raw = RawCombo     -> [ok |-> TRUE, kind |-> "object",
                                value |-> [first_name |-> FirstOk, last_name |-> LastOk,
                                           email |-> EmailOk]]
      [] raw = RawMalformed -> [ok |-> FALSE, kind |-> "none", value |-> NoRecord]
      [] raw = RawArray     -> [ok |-> TRUE, kind |-> "array", value |-> NoRecord]
      [] raw = RawNumName   -> [ok |-> TRUE, kind |-> "object",
                                value |-> [first_name |-> FirstNum, last_name |-> LastOk,
                                           email |-> EmailShort]]

\* a cell of the redacted_data_json column: the raw input text, or json.dumps
\* of the redacted record
RawCell(raw) == [t |-> "raw", text |-> raw, rec |-> NoRecord]
JsonDumps(d) == [t |-> "json", text |-> "", rec |-> d]
\* the csv writer's rendering of a bool
BoolText(b) == IF b THEN "True" ELSE "False"

OutRow(id, cell, flag) ==
    [record_id |-> id, redacted_data_json |-> cell, is_pii |-> BoolText(flag)]
HeaderRow ==
    [record_id |-> "record_id", redacted_data_json |-> RawCell("redacted_data_json"),
     is_pii |-> "is_pii"]

MaxRows == 3

InputRow(id, raw) == [record_id |-> id, data_json |-> raw]
InputCsvs ==
    UNION {[1..n -> {InputRow(id, raw) : id \in RecordIds, raw \in Payloads}] : n \in 0..MaxRows}

InitCsv ==
    /\ rows \in InputCsvs
    /\ pc \in {"ctf", "root"}
    /\ data = NoRecord
    /\ ctf = NotRun
    /\ root = NotRun
    /\ ctf_pos = 0 /\ ctf_status = "idle" /\ ctf_out = <<>>
    /\ root_pos = 0 /\ root_status = "idle" /\ output_rows = <<>> /\ root_out = <<>>

\* process_csv lines 72-88: open both files, write the output header
CtfOpen ==
    /\ pc = "ctf" /\ ctf_status = "idle"
    /\ ctf_status' = "running"
    /\ ctf_out' = <<HeaderRow>>
    /\ UNCHANGED <<rows, ctf_pos, root_pos, root_status, output_rows, root_out>>
    /\ UNCHANGED recVars

\* faulty variant: JSONDecodeError is not caught by the row's handler
CtfRowResult_MalformedAborts(row) ==
    LET parsed == JsonLoads(row.data_json)
    IN  IF ~parsed.ok \/ parsed.kind # "object" \/ CtfProcess(parsed.value).raised
        THEN [raised |-> TRUE, row |-> HeaderRow]
        ELSE LET r == CtfProcess(parsed.value)
             IN  [raised |-> FALSE,
                  row |-> OutRow(row.record_id, JsonDumps(r.redacted), r.is_pii)]

\* what one iteration of process_csv's for loop does with a row (lines 90-166):
\* the row written, or none when an exception other than JSONDecodeError
\* leaves the loop
CtfRowResult(row) ==
    LET parsed == JsonLoads(row.data_json)
    IN  IF ~parsed.ok
        THEN [raised |-> FALSE, row |-> OutRow(row.record_id, RawCell(row.data_json), FALSE)]
        ELSE IF parsed.kind # "object" \/ CtfProcess(parsed.value).raised
        THEN [raised |-> TRUE, row |-> HeaderRow]
        ELSE LET r == CtfProcess(parsed.value)
             IN  [raised |-> FALSE,
                  row |-> OutRow(row.record_id, JsonDumps(r.redacted), r.is_pii)]

CtfRow ==
    /\ pc = "ctf" /\ ctf_status = "running" /\ ctf_pos < Len(rows)
    /\ LET res == CtfRowResult(rows[ctf_pos + 1])
       IN  /\ ctf_pos' = ctf_pos + 1
           /\ IF res.raised
              THEN ctf_status' = "aborted" /\ ctf_out' = ctf_out
              ELSE ctf_status' = ctf_status /\ ctf_out' = Append(ctf_out, res.row)
    /\ UNCHANGED <<rows, root_pos, root_status, output_rows, root_out>>
    /\ UNCHANGED recVars

\* process_csv lines 175-177: the loop is exhausted, the files are closed
CtfFinish ==
    /\ pc = "ctf" /\ ctf_status = "running" /\ ctf_pos = Len(rows)
    /\ ctf_status' = "done"
    /\ UNCHANGED <<rows, ctf_pos, ctf_out, root_pos, root_status, output_rows, root_out>>
    /\ UNCHANGED recVars

\* main lines 247-252: open the input, output_rows = []
RootOpen ==
    /\ pc = "root" /\ root_status = "idle"
    /\ root_status' = "running"
    /\ output_rows' = <<>>
    /\ UNCHANGED <<rows, ctf_pos, ctf_status, ctf_out, root_pos, root_out>>
    /\ UNCHANGED recVars

\* one iteration of main's for loop (lines 254-281)
RootRowResult(row) ==
    LET parsed == JsonLoads(row.data_json)
    IN  IF ~parsed.ok
        THEN [raised |-> FALSE, row |-> OutRow(row.record_id, RawCell(row.data_json), FALSE)]
        ELSE IF parsed.kind # "object"
        THEN [raised |-> TRUE, row |-> HeaderRow]
        ELSE LET r == process_record(parsed.value)
             IN  [raised |-> FALSE,
                  row |-> OutRow(row.record_id, JsonDumps(r.redacted), r.is_pii)]

RootRow ==
    /\ pc = "root" /\ root_status = "running" /\ root_pos < Len(rows)
    /\ LET res == RootRowResult(rows[root_pos + 1])
       IN  /\ root_pos' = root_pos + 1
           /\ IF res.raised
              THEN root_status' = "aborted" /\ output_rows' = output_rows
              ELSE root_status' = root_status /\ output_rows' = Append(output_rows, res.row)
    /\ UNCHANGED <<rows, ctf_pos, ctf_status, ctf_out, root_out>>
    /\ UNCHANGED recVars

\* main lines 283-293: the loop is exhausted, the output file is written
RootWrite ==
    /\ pc = "root" /\ root_status = "running" /\ root_pos = Len(rows)
    /\ root_out' = <<HeaderRow>> \o output_rows
    /\ root_status' = "done"
    /\ UNCHANGED <<rows, ctf_pos, ctf_status, ctf_out, root_pos, output_rows>>
    /\ UNCHANGED recVars

NextCsv == CtfOpen \/ CtfRow \/ CtfFinish \/ RootOpen \/ RootRow \/ RootWrite

SpecCsv == InitCsv /\ [][NextCsv]_vars

----------------------------------------------------------------------------
(* Properties *)

CtfOk == pc = "ctf" /\ ~ctf.raised
RootOk == pc = "root"

\* C1: the is_pii flag a detector returns for a record is true exactly when
\* the record has at least one standalone hit or has_combination is true.
C1_AggregateFlag ==
    /\ CtfOk => (ctf.is_pii <=> (ctf.standalone # {} \/ ctf.has_combination))
    /\ RootOk => (root.is_pii <=> (root.standalone # {} \/ root.has_combination))

C1_Witness ==
    /\ CtfOk
    /\ ctf.standalone = {}
    /\ ctf.has_combination
    /\ ctf.is_pii

\* the keys process_csv rewrites or removes because of a qualifying combination
CtfCombRedacted(k) ==
    /\ ctf.has_combination
    /\ \/ k \in COMBINATORIAL_KEYS
       \/ "name" \in ctf.hits /\ k \in {"first_name", "last_name", "name"}

StandaloneKeys == {"phone", "aadhar", "passport", "upi_id"}

\* C2 (as claimed): in both detectors a field is a standalone hit only under
\* one of the keys phone, aadhar, passport, upi_id; a value under any other
\* key is never a standalone hit.
C2_FieldNameGated ==
    /\ CtfOk => ctf.standalone \subseteq StandaloneKeys
    /\ RootOk => root.standalone \subseteq StandaloneKeys

\* C2 (amended): process_csv gates standalone detection by field name: hits
\* lie under the four keys only, a record is flagged only by such a hit or by
\* a combination, and a field under any other key is unchanged unless the
\* combination redacts it.  PIIDetector gates only the four keys (each tested
\* against its own pattern); a non-empty value under any other key is a hit
\* exactly when it matches any of the four patterns, and then the record is
\* flagged and the field holds redact_value's result.
C2_GatedInProcessCsvOnly ==
    /\ CtfOk =>
         /\ ctf.standalone \subseteq StandaloneKeys
         /\ ctf.is_pii =>
              \/ ctf.has_combination
              \/ \E k \in StandaloneKeys \cap DOMAIN data : k \in ctf.standalone
         /\ \A k \in DOMAIN data \ StandaloneKeys :
              ~CtfCombRedacted(k) =>
                  k \in DOMAIN ctf.redacted /\ ctf.redacted[k] = data[k]
    /\ RootOk =>
         \A k \in DOMAIN data :
            LET s == PyStr(data[k])
                own == \/ k = "phone" /\ is_phone_number(s)
                       \/ k = "aadhar" /\ is_aadhar_number(s)
                       \/ k = "passport" /\ is_passport_number(s)
                       \/ k = "upi_id" /\ is_upi_id(s)
                any == \/ is_phone_number(s) \/ is_aadhar_number(s)
                       \/ is_passport_number(s) \/ is_upi_id(s)
            IN  /\ k \in root.standalone <=>
                     Truthy(data[k]) /\ (IF k \in StandaloneKeys THEN own ELSE any)
                /\ k \in root.standalone =>
                     root.is_pii /\ root.redacted[k] = Str(redact_value(data[k], k))

C2_Witness ==
    /\ CtfOk
    /\ DOMAIN data = {"order_id"}
    /\ data["order_id"] = OrderPhone
    /\ ~ctf.is_pii
    /\ ctf.redacted = data

\* the combinatorial kinds present in a record: the first_name + last_name
\* pair is the one kind "name"; email, address, device_id, ip_address are one
\* kind each
KindsPresent(d) ==
    (IF {"first_name", "last_name"} \subseteq DOMAIN d THEN {"name"} ELSE {})
    \cup (COMBINATORIAL_KEYS \cap DOMAIN d)

ThresholdHolds(res) ==
    /\ res.has_combination <=> Cardinality(KindsPresent(data)) >= 2
    /\ (Cardinality(KindsPresent(data)) = 1 /\ res.standalone = {}) =>
          ~res.has_combination /\ ~res.is_pii /\ res.redacted = data

\* C3: has_combination is true exactly when at least 2 distinct combinatorial
\* kinds are present; with exactly one kind and no standalone hit
\* has_combination and is_pii are false and the redacted record is the input.
C3_CombinationThreshold ==
    /\ CtfOk => ThresholdHolds(ctf)
    /\ RootOk => ThresholdHolds(root)

\* C3 restricted to process_csv
C3_InProcessCsv == CtfOk => ThresholdHolds(ctf)

AllCombinatorialRedacted(res) ==
    /\ \A k \in COMBINATORIAL_KEYS \cap DOMAIN data :
          /\ k \in DOMAIN res.redacted
          /\ IsStr(res.redacted[k])
          /\ res.redacted[k] # data[k]
    /\ {"first_name", "last_name"} \subseteq DOMAIN data =>
          /\ "first_name" \notin DOMAIN res.redacted
          /\ "last_name" \notin DOMAIN res.redacted
          /\ "name" \in DOMAIN res.redacted
          /\ IsStr(res.redacted["name"])

\* C4: whenever has_combination is true every present email, address,
\* device_id and ip_address field is replaced by a masked string, and a
\* first_name + last_name pair is removed and replaced by one masked name.
C4_AllHitsRedacted ==
    /\ (CtfOk /\ ctf.has_combination) => AllCombinatorialRedacted(ctf)
    /\ (RootOk /\ root.has_combination) => AllCombinatorialRedacted(root)

\* C4 restricted to process_csv
C4_InProcessCsv == (CtfOk /\ ctf.has_combination) => AllCombinatorialRedacted(ctf)

\* C7: processing a record of JSON scalars always completes: no detector
\* raises.
C7_NeverRaises ==
    /\ pc = "ctf" => ~ctf.raised
    /\ pc = "root" => ~root.raised

\* C7 restricted to PIIDetector
C7_InPIIDetector == pc = "root" => ~root.raised

\* the fields PIIDetector rewrites because of a qualifying combination
RootCombHits == IF root.has_combination THEN root.hits ELSE {}

\* the fields process_csv detects as hits of a qualifying combination
CtfCombHits ==
    IF ~ctf.has_combination THEN {}
    ELSE COMBINATORIAL_KEYS
         \cup (IF "name" \in ctf.hits THEN {"first_name", "last_name"} ELSE {})

FrameHolds(res, hitFields) ==
    /\ \A k \in DOMAIN data \ hitFields :
          k \in DOMAIN res.redacted /\ res.redacted[k] = data[k]
    /\ DOMAIN res.redacted \subseteq DOMAIN data \cup {"name"}

\* C8: every field that is neither a standalone hit nor a combinatorial hit
\* of a qualifying combination is in the redacted record under the same key
\* with the same value, and the redacted record has no keys beyond the
\* input's keys and the synthesized name.
C8_Frame ==
    /\ CtfOk => FrameHolds(ctf, ctf.standalone \cup CtfCombHits)
    /\ RootOk => FrameHolds(root, root.standalone \cup RootCombHits)

\* C8 restricted to PIIDetector
C8_InPIIDetector == RootOk => FrameHolds(root, root.standalone \cup RootCombHits)

TenDigits(v) == IsStr(v) /\ Len(v.s) = 10 /\ AllIn(v.s, 1, 10, Digit)

PhoneRule(res) ==
    "phone" \in DOMAIN data =>
        LET v == data["phone"]
        IN  /\ "phone" \in res.standalone <=> TenDigits(v)
            /\ TenDigits(v) =>
                 /\ res.redacted["phone"] = Str(SubSeq(v.s, 1, 2) \o X6 \o SubSeq(v.s, 9, 10))
                 /\ res.redacted["phone"] # v
                 /\ res.is_pii
            /\ ~TenDigits(v) =>
                 /\ res.redacted["phone"] = v
                 /\ DOMAIN data = {"phone"} => ~res.is_pii

\* C9: a phone field is a standalone hit exactly when its value is a string
\* of exactly 10 digits; a hit is redacted to first 2 digits + XXXXXX + last
\* 2 digits and flags the record; otherwise the value is unchanged and the
\* phone field alone does not flag the record.
C9_PhoneRule ==
    /\ CtfOk => PhoneRule(ctf)
    /\ RootOk => PhoneRule(root)

\* C9 restricted to process_csv
C9_InProcessCsv == CtfOk => PhoneRule(ctf)

NonEmpty(v) == ~(v.t = "null" \/ (v.t = "str" /\ v.s = <<>>))

CountsWhenNonEmpty(res) ==
    \A k \in COMBINATORIAL_KEYS :
        k \in res.hits <=> (k \in DOMAIN data /\ NonEmpty(data[k]))

\* C10: each of email, address, device_id, ip_address counts as a
\* combinatorial hit exactly when the key is present with a non-empty value,
\* whatever the value's content.
C10_PresenceNonEmpty ==
    /\ CtfOk => CountsWhenNonEmpty(ctf)
    /\ RootOk => CountsWhenNonEmpty(root)

----------------------------------------------------------------------------
(* Properties of the CSV drivers *)

Malformed(row) == ~JsonLoads(row.data_json).ok
Passthrough(row) == OutRow(row.record_id, RawCell(row.data_json), FALSE)

\* the rows a driver has produced so far are one per consumed row, in input
\* order (the row that raised, if any, excepted); a malformed row's output
\* is the passthrough row, and a well-formed row's output carries its own
\* record_id
ProducedAsPassthrough(produced, pos, status) ==
    /\ Len(produced) = pos - (IF status = "aborted" THEN 1 ELSE 0)
    /\ \A i \in 1..pos :
          Malformed(rows[i]) => i <= Len(produced) /\ produced[i] = Passthrough(rows[i])
    /\ \A i \in 1..Len(produced) :
          /\ produced[i].record_id = rows[i].record_id
          /\ ~Malformed(rows[i]) => produced[i].redacted_data_json.t = "json"

\* C5: a row whose data_json is not valid JSON produces exactly one output row
\* with the same record_id, the raw payload verbatim and is_pii False, it never
\* stops the run, and the rows after it are processed and produced in their
\* own positions.  process_csv writes each row at once; main appends it to
\* output_rows and writes them all when the loop ends.
C5_MalformedPassthrough ==
    /\ (pc = "ctf" /\ ctf_status # "idle") =>
          /\ ctf_out[1] = HeaderRow
          /\ ProducedAsPassthrough(Tail(ctf_out), ctf_pos, ctf_status)
    /\ (pc = "root" /\ root_status # "idle") =>
          /\ ProducedAsPassthrough(output_rows, root_pos, root_status)
          /\ root_status = "done" => root_out = <<HeaderRow>> \o output_rows

C5_Witness ==
    /\ pc = "ctf" /\ ctf_status = "done"
    /\ Len(rows) >= 2
    /\ Malformed(rows[1]) /\ ~Malformed(rows[2])
    /\ Len(ctf_out) = Len(rows) + 1
    /\ ctf_out[2] = Passthrough(rows[1])

OneRowPerRecord(out) ==
    /\ Len(out) = Len(rows) + 1
    /\ out[1] = HeaderRow
    /\ \A i \in 1..Len(rows) : out[i + 1].record_id = rows[i].record_id

\* C6: when the run ends the output CSV holds the header and exactly one row
\* per input record, in input order with the same record_id, whatever the
\* payloads are.
C6_OneRowPerRecord ==
    /\ (pc = "ctf" /\ ctf_status \in {"done", "aborted"}) => OneRowPerRecord(ctf_out)
    /\ (pc = "root" /\ root_status \in {"done", "aborted"}) => OneRowPerRecord(root_out)

----------------------------------------------------------------------------
(* Properties of the email mask *)

\* the mask the rule prescribes for local@domain
PrescribedEmailMask(s) ==
    LET local == LocalPart(s)
    IN  (IF Len(local) > 2 THEN SubSeq(local, 1, 2) \o X3 ELSE X3)
        \o <<"@">> \o DomainPart(s)

EmailOfShape == "email" \in DOMAIN data /\ IsStr(data["email"]) /\ HasAt(data["email"].s)

\* the email field is redacted because of a qualifying combination
CtfEmailRedacted == CtfOk /\ ctf.has_combination /\ EmailOfShape
RootEmailRedacted ==
    RootOk /\ root.has_combination /\ EmailOfShape /\ "email" \in root.hits

\* C11: an email local@domain redacted as part of a qualifying combination
\* becomes the first 2 characters of the local part + XXX when the local
\* part has more than 2 characters, the literal XXX otherwise, then @ and the
\* unchanged domain.
C11_EmailMask ==
    /\ CtfEmailRedacted =>
          ctf.redacted["email"] = Str(PrescribedEmailMask(data["email"].s))
    /\ RootEmailRedacted =>
          root.redacted["email"] = Str(PrescribedEmailMask(data["email"].s))

\* C11 restricted to process_csv
C11_InProcessCsv ==
    CtfEmailRedacted =>
        ctf.redacted["email"] = Str(PrescribedEmailMask(data["email"].s))

\* C11 restricted to process_csv and to local parts longer than 2 characters
C11_InProcessCsvLongLocal ==
    (CtfEmailRedacted /\ Len(LocalPart(data["email"].s)) > 2) =>
        ctf.redacted["email"] = Str(PrescribedEmailMask(data["email"].s))

\* C11 restricted to PIIDetector
C11_InPIIDetector ==
    RootEmailRedacted =>
        root.redacted["email"] = Str(PrescribedEmailMask(data["email"].s))

====
